---- MODULE Spec2Model ----
(***************************************************************************)
(* Model of build_pdf_hrna.py: the PDC colour bucketing, the heatmap       *)
(* drawing, the period labels, the measure-row selection, the first-page   *)
(* banner, build_provider_pdf and the module-level batch loop.             *)
(*                                                                         *)
(* Numbers.  A PDC value v is represented by the integer v * Scale, so     *)
(* that values strictly between two whole percents exist (59.9 < 60).      *)
(* Lengths are in hundredths of a point (inch = 7200), which keeps         *)
(* 0.3 * usable_width and 0.52 * usable_width exact.                       *)
(***************************************************************************)
EXTENDS Integers, Sequences, FiniteSets, TLC

VARIABLES
    call,       \* the pure function last called and its argument
    ret,        \* what that call returned
    logo,       \* what logo_path names: nothing, no file, a bad file, an image
    n,          \* number of groups df.groupby yields
    i,          \* 1-based position of the batch loop in the groups
    pc,         \* "loop", "done" (loop exhausted) or "aborted" (uncaught exception)
    started,    \* positions of the groups whose build_provider_pdf call began
    produced,   \* positions of the groups whose document was written
    doc,        \* the document of the last build_provider_pdf call
    banner      \* the last first_page_header call

vars == <<call, ret, logo, n, i, pc, started, produced, doc, banner>>

batchVars == <<logo, n, i, pc, started, produced, doc, banner>>

---------------------------------------------------------------------------
(* Bounds of the model *)

Scale == 10             \* representation units per percent
MaxPdc == 120           \* PDC inputs range over -MaxPdc .. MaxPdc percent
MaxNegYear == 120       \* years range over -MaxNegYear .. MaxYear
MaxYear == 2110
MaxMeasureRows == 2     \* measure_rows passed to pdc_heatmap have at most this many rows
MaxVals == 4            \* a measure of measure_rows supplies 0 .. MaxVals values
MaxGroups == 2          \* groups in one batch
MaxRecords == 2         \* records in one group
MaxPages == 3           \* pages a document may span

---------------------------------------------------------------------------
(* Values *)

\* A value is a tagged record, a finite number carrying v * Scale in field v.
Num(x) == [k |-> "num", v |-> x]
None == [k |-> "None", v |-> 0]         \* Python None
NaN == [k |-> "nan", v |-> 0]           \* float('nan')
PosInf == [k |-> "inf", v |-> 1]        \* float('inf')
NegInf == [k |-> "inf", v |-> -1]       \* float('-inf')
Absent == [k |-> "absent", v |-> 0]     \* a field the record does not have
Text == [k |-> "str", v |-> 0]          \* a value that is no number (a string)

Pct(x) == Num(x * Scale)                \* the whole percent x

IsNumber(val) == val.k \in {"num", "nan", "inf"}

\* Python's val < c for a float or int val and an int literal c (false for nan)
Less(val, c) ==
    CASE val.k = "num" -> val.v < c * Scale
      [] val.k = "inf" -> val.v < 0
      [] OTHER         -> FALSE

\* what pdc_color returns
Blank == "None"         \* None: the cell stays blank
TypeError == "TypeError"
RED == "#DC2626"
AMBER == "#F59E0B"
GREEN == "#16A34A"

---------------------------------------------------------------------------
(* pdc_color *)

\* pdc_color with <= in place of <: 60 would be red and 80 amber
pdc_color_le(pdc) ==
    IF pdc = None THEN Blank
    ELSE IF pdc = NaN THEN Blank
    ELSE IF ~IsNumber(pdc) THEN TypeError
    ELSE IF Less(pdc, 60) \/ pdc = Pct(60) THEN RED
    ELSE IF Less(pdc, 80) \/ pdc = Pct(80) THEN AMBER
    ELSE GREEN

pdc_color(pdc) ==
    IF pdc = None THEN Blank                    \* if pdc is None
    ELSE IF pdc = NaN THEN Blank                \* math.isnan(pdc)
    ELSE IF ~IsNumber(pdc) THEN TypeError       \* isnan's TypeError is passed, pdc < 60 raises
    ELSE IF Less(pdc, 60) THEN RED
    ELSE IF Less(pdc, 80) THEN AMBER
    ELSE GREEN

---------------------------------------------------------------------------
(* pdc_heatmap *)

width == 120
height_per_row == 18
cols == 3

Drawing(w, h) == [width |-> w, height |-> h, shapes |-> <<>>]

Rect(x, y, w, h, fill) == [x |-> x, y |-> y, w |-> w, h |-> h, fillColor |-> fill]

\* padded without the [:cols] slice
PaddedNoSlice(values) == values \o [k \in 1..cols |-> None]

\* (values + [None] * cols)[:cols]
Padded(values) ==
    SubSeq(values \o [k \in 1..cols |-> None], 1, cols)

\* the rectangles the inner loop adds for row r (0-based), for the entries
\* c, c+1, ... of enumerate(padded)
RECURSIVE RowRects(_, _, _, _)
RowRects(padded, r, c, height) ==
    IF c >= Len(padded) THEN <<>>
    ELSE LET color == pdc_color(padded[c + 1])
             cell_w == width \div cols
             cell_h == height_per_row
             rest == RowRects(padded, r, c + 1, height)
         IN IF color = Blank THEN rest
            ELSE <<Rect(c * cell_w, height - (r + 1) * cell_h, cell_w, cell_h, color)>> \o rest

\* the rectangles the outer loop adds for rows r .. len-1
RECURSIVE GridRects(_, _, _)
GridRects(measure_rows, r, height) ==
    IF r >= Len(measure_rows) THEN <<>>
    ELSE RowRects(Padded(measure_rows[r + 1][2]), r, 0, height)
             \o GridRects(measure_rows, r + 1, height)

pdc_heatmap(measure_rows) ==
    IF measure_rows = <<>> THEN Drawing(width, height_per_row)
    ELSE LET rows == Len(measure_rows)
             height == rows * height_per_row
         IN [Drawing(width, height) EXCEPT !.shapes = GridRects(measure_rows, 0, height)]

---------------------------------------------------------------------------
(* heatmap_year_headers *)

Digit(d) == CASE d = 0 -> "0" [] d = 1 -> "1" [] d = 2 -> "2" [] d = 3 -> "3"
              [] d = 4 -> "4" [] d = 5 -> "5" [] d = 6 -> "6" [] d = 7 -> "7"
              [] d = 8 -> "8" [] d = 9 -> "9"

\* str(m) for m >= 0, as a sequence of characters
RECURSIVE StrNat(_)
StrNat(m) == IF m < 10 THEN <<Digit(m)>> ELSE StrNat(m \div 10) \o <<Digit(m % 10)>>

\* str(y) for an int y
Str(y) == IF y < 0 THEN <<"-">> \o StrNat(-y) ELSE StrNat(y)

\* s[-2:]
Last2(s) == IF Len(s) <= 2 THEN s ELSE SubSeq(s, Len(s) - 1, Len(s))

\* heatmap_year_headers with y-1 repeated in the last label
heatmap_year_headers_dup(y) ==
    << Last2(Str(y - 2)), Last2(Str(y - 1)), Last2(Str(y - 1)) >>

heatmap_year_headers(y) ==
    << Last2(Str(y - 2)), Last2(Str(y - 1)), Last2(Str(y)) >>

---------------------------------------------------------------------------
(* build_measure_rows *)

measure_defs == << <<"Statin", "Statin">>, <<"Diabetes", "Diabetes">>, <<"RAS", "RAS">> >>

\* A record maps a field prefix to its values in the periods _PDC_Prior_2,
\* _PDC_Prior_1, _PDC_Current.
\* row.get(prefix + period): an absent field reads as None
Get(row, prefix, p) ==
    IF row[prefix][p] = Absent THEN None ELSE row[prefix][p]

\* the inclusion test without the NaN check
PresentNoNaNCheck(v) == v # None

\* v is not None and not (isinstance(v, float) and math.isnan(v))
Present(v) == v # None /\ ~(v = NaN)

RECURSIVE MeasureRowsFrom(_, _)
MeasureRowsFrom(row, k) ==
    IF k > Len(measure_defs) THEN <<>>
    ELSE LET label == measure_defs[k][1]
             prefix == measure_defs[k][2]
             values == [p \in 1..3 |-> Get(row, prefix, p)]
             rest == MeasureRowsFrom(row, k + 1)
         IN IF \E p \in 1..3 : Present(values[p])
            THEN << <<label, values>> >> \o rest
            ELSE rest

build_measure_rows(row) == MeasureRowsFrom(row, 1)

---------------------------------------------------------------------------
(* Calls of the pure functions, one per behaviour, on bounded inputs *)

Idle == [fn |-> "idle", arg |-> <<>>]

PdcInputs ==
    {Num(x) : x \in (0 - MaxPdc * Scale)..(MaxPdc * Scale)}
        \cup {None, NaN, PosInf, NegInf, Text}

Prefixes == {"Statin", "Diabetes", "RAS"}
SlotVals == {None, NaN, Pct(55), Pct(85)}
\* a record has a measure's three columns, or has none of them ("2 or 3 measures")
MeasureFields == [1..3 -> SlotVals] \cup {[p \in 1..3 |-> Absent]}
Rows == [Prefixes -> MeasureFields]

Years == (0 - MaxNegYear)..MaxYear

Pattern == <<Pct(55), Pct(65), Pct(85), None, NaN>>
ValueList(off, len) == [k \in 1..len |-> Pattern[((off + k - 1) % Len(Pattern)) + 1]]
ValueLists == {ValueList(off, len) : off \in 0..(Len(Pattern) - 1), len \in 0..MaxVals}
Labels == <<"Statin", "Diabetes", "RAS">>
MeasureRowsOfLen(len) ==
    {[r \in 1..len |-> <<Labels[((r - 1) % 3) + 1], vl[r]>>] : vl \in [1..len -> ValueLists]}
MeasureRowsInputs == UNION {MeasureRowsOfLen(len) : len \in 0..MaxMeasureRows}

InitFn ==
    /\ call = Idle
    /\ ret = <<>>
    /\ logo = "absent"
    /\ n = 0
    /\ i = 1
    /\ pc = "done"
    /\ started = {}
    /\ produced = {}
    /\ doc = [called |-> FALSE]
    /\ banner = [called |-> FALSE]

CallPdcColor ==
    /\ call = Idle
    /\ \E v \in PdcInputs :
          /\ call' = [fn |-> "pdc_color", arg |-> v]
          /\ ret' = pdc_color(v)
    /\ UNCHANGED batchVars

CallBuildMeasureRows ==
    /\ call = Idle
    /\ \E row \in Rows :
          /\ call' = [fn |-> "build_measure_rows", arg |-> row]
          /\ ret' = build_measure_rows(row)
    /\ UNCHANGED batchVars

CallHeatmapYearHeaders ==
    /\ call = Idle
    /\ \E y \in Years :
          /\ call' = [fn |-> "heatmap_year_headers", arg |-> y]
          /\ ret' = heatmap_year_headers(y)
    /\ UNCHANGED batchVars

CallPdcHeatmap ==
    /\ call = Idle
    /\ \E mr \in MeasureRowsInputs :
          /\ call' = [fn |-> "pdc_heatmap", arg |-> mr]
          /\ ret' = pdc_heatmap(mr)
    /\ UNCHANGED batchVars

NextColor == CallPdcColor
NextSelect == CallBuildMeasureRows
NextYears == CallHeatmapYearHeaders
NextHeatmap == CallPdcHeatmap

SpecColor == InitFn /\ [][NextColor]_vars
SpecSelect == InitFn /\ [][NextSelect]_vars
SpecYears == InitFn /\ [][NextYears]_vars
SpecHeatmap == InitFn /\ [][NextHeatmap]_vars

---------------------------------------------------------------------------
(* first_page_header *)

inch == 7200                        \* one inch, in hundredths of a point
LETTER == <<612 * 100, 792 * 100>>  \* page_width, page_height

Logos == {"absent", "missing", "unreadable", "image"}

\* os.path.exists(logo_path)
Exists(lg) == lg \in {"unreadable", "image"}

\* logo_path and os.path.exists(logo_path)
DrawsLogo(lg) == lg # "absent" /\ Exists(lg)

\* canvas.drawImage raises when the file holds no readable image data
ImageReadable(lg) == lg = "image"

NoBanner == [called |-> FALSE, raised |-> FALSE, ops |-> <<>>]

first_page_header(lg) ==
    LET banner_height == (14 * inch) \div 10
        page_width == LETTER[1]
        page_height == LETTER[2]
        left_x == (75 * inch) \div 100
        top_y == page_height - (55 * inch) \div 100
        logo_height == banner_height - (35 * inch) \div 100
        logo_width == logo_height * 2
        head == << [op |-> "saveState", x |-> 0, y |-> 0],
                   [op |-> "rect", x |-> 0, y |-> page_height - banner_height],
                   [op |-> "title", x |-> left_x, y |-> top_y],
                   [op |-> "subtitle", x |-> left_x, y |-> top_y - (45 * inch) \div 100] >>
        image == [op |-> "drawImage",
                  x |-> page_width - logo_width - (6 * inch) \div 10,
                  y |-> page_height - banner_height + (175 * inch) \div 1000]
        restore == [op |-> "restoreState", x |-> 0, y |-> 0]
    IN IF DrawsLogo(lg)
       THEN IF ImageReadable(lg)
            THEN [called |-> TRUE, raised |-> FALSE, ops |-> head \o <<image, restore>>]
            ELSE [called |-> TRUE, raised |-> TRUE, ops |-> head]
       ELSE [called |-> TRUE, raised |-> FALSE, ops |-> head \o <<restore>>]

---------------------------------------------------------------------------
(* build_provider_pdf *)

repeatRows == 1

\* doc.width of SimpleDocTemplate: the page width minus the left and right margins
usable_width == LETTER[1] - (75 * inch) \div 100 - (75 * inch) \div 100

col_widths == << (usable_width * 30) \div 100, (usable_width * 52) \div 100 >>

HeaderRow ==
    << [cell |-> "Patient Details"],
       [cell |-> "Adherence Breakdown - Failed Measure(s)"],
       [cell |-> "PDC History"] >>

\* the table row of the k-th record of the group
BodyRow(group, k) ==
    << [cell |-> "member detail", record |-> k],
       [cell |-> "adherence breakdown", record |-> k] >>

table_data(group) == <<HeaderRow>> \o [k \in 1..Len(group) |-> BodyRow(group, k)]

Story == <<"header_text", "Spacer12", "legend_table", "Spacer6", "table">>

\* doc.build with first_page_header as onLaterPages too
PageCallbackEveryPage(p) == "first_page_header"

\* doc.build(story, onFirstPage = first_page_header): nothing is drawn on later pages
PageCallback(p) == IF p = 1 THEN "first_page_header" ELSE "none"

\* Table(..., repeatRows = 1): the first row opens every page the table spans
HeaderRowOn(p, first) == p = first \/ (p > first /\ repeatRows >= 1)

\* The pages doc.build lays out when the document has np pages and the table,
\* the last flowable, starts on page first.
Pages(np, first) ==
    [p \in 1..np |-> [callback |-> PageCallback(p),
                      has_table |-> p >= first,
                      header_row |-> p >= first /\ HeaderRowOn(p, first)]]

\* The layouts the rendering library may choose: a table of k body rows spans at
\* least one page and no more pages than it has body rows.
Layouts(group) ==
    {<<np, first>> \in (1..MaxPages) \X (1..MaxPages) :
        /\ first <= np
        /\ np - first + 1 <= (IF Len(group) = 0 THEN 1 ELSE Len(group))}

Outcomes == {"ok", "makedirs", "write"}

NoDoc == [called |-> FALSE, group |-> <<>>, raised |-> "", story |-> <<>>,
          table_data |-> <<>>, col_widths |-> <<>>, pages |-> <<>>, written |-> FALSE]

\* One call: outcome says whether os.makedirs or the write of the file fails.
build_provider_pdf(group, lg, outcome, layout) ==
    LET built == [called |-> TRUE, group |-> group, raised |-> "", story |-> Story,
                  table_data |-> table_data(group), col_widths |-> col_widths,
                  pages |-> <<>>, written |-> FALSE]
        hdr == first_page_header(lg)
    IN IF outcome = "makedirs"
       THEN [doc |-> [NoDoc EXCEPT !.called = TRUE, !.group = group, !.raised = "makedirs"],
             banner |-> NoBanner]
       ELSE IF hdr.raised
       THEN [doc |-> [built EXCEPT !.raised = "drawImage"], banner |-> hdr]
       ELSE IF outcome = "write"
       THEN [doc |-> [built EXCEPT !.raised = "write", !.pages = Pages(layout[1], layout[2])],
             banner |-> hdr]
       ELSE [doc |-> [built EXCEPT !.pages = Pages(layout[1], layout[2]), !.written = TRUE],
             banner |-> hdr]

---------------------------------------------------------------------------
(* The batch loop over df.groupby *)

RecStatin == [m \in Prefixes |->
                 IF m = "Statin" THEN <<Pct(55), Pct(65), Pct(85)>>
                 ELSE IF m = "Diabetes" THEN <<None, None, None>>
                 ELSE <<Absent, Absent, Absent>>]
RecNoMeasure == [m \in Prefixes |-> <<Absent, Absent, Absent>>]
\* the two records of the end-to-end scenario
BuildRecords == {RecStatin, RecNoMeasure}

Groups == UNION {[1..len -> BuildRecords] : len \in 0..MaxRecords}

Init ==
    /\ call = Idle
    /\ ret = <<>>
    /\ logo \in Logos
    /\ n \in 0..MaxGroups
    /\ i = 1
    /\ pc = "loop"
    /\ started = {}
    /\ produced = {}
    /\ doc = NoDoc
    /\ banner = NoBanner

\* One iteration: build_provider_pdf on the next group; an exception it raises is
\* caught nowhere and ends the script.
LoopBody ==
    /\ pc = "loop"
    /\ i <= n
    /\ \E group \in Groups, outcome \in Outcomes :
         \E layout \in Layouts(group) :
            LET r == build_provider_pdf(group, logo, outcome, layout)
            IN /\ doc' = r.doc
               /\ banner' = r.banner
               /\ started' = started \cup {i}
               /\ IF r.doc.raised = ""
                  THEN /\ produced' = produced \cup {i}
                       /\ i' = i + 1
                       /\ pc' = "loop"
                  ELSE /\ produced' = produced
                       /\ i' = i
                       /\ pc' = "aborted"
    /\ UNCHANGED <<call, ret, logo, n>>

LoopEnd ==
    /\ pc = "loop"
    /\ i > n
    /\ pc' = "done"
    /\ UNCHANGED <<call, ret, logo, n, i, started, produced, doc, banner>>

Next == LoopBody \/ LoopEnd

Spec == Init /\ [][Next]_vars

---------------------------------------------------------------------------
(* Claims about the pure functions *)

\* The bucket the specification assigns to a value, from its stated boundaries.
Bucket(val) ==
    CASE val = None \/ val = NaN -> Blank
      [] val = NegInf -> RED
      [] val = PosInf -> GREEN
      [] val.k = "num" /\ val.v < 60 * Scale -> RED
      [] val.k = "num" /\ val.v >= 60 * Scale /\ val.v < 80 * Scale -> AMBER
      [] val.k = "num" /\ val.v >= 80 * Scale -> GREEN

\* C1: pdc_color maps every number below 60 to red, every number from 60 up to
\* but not including 80 to amber, every number from 80 up to green, None and
\* NaN to the blank colour, and raises for none of them.
C1_Buckets ==
    call.fn = "pdc_color" /\ (IsNumber(call.arg) \/ call.arg = None)
        => /\ ret = Bucket(call.arg)
           /\ ret # TypeError

C1_Witness ==
    /\ call.fn = "pdc_color"
    /\ call.arg = Pct(60)
    /\ ret = AMBER

\* What a record holds in a slot, as the caller sees it through row.get.
Slot(row, prefix, p) == IF row[prefix][p] = Absent THEN None ELSE row[prefix][p]
HasValue(row, prefix) == \E p \in 1..3 : Slot(row, prefix, p) \notin {None, NaN}
Rank(label) == CASE label = "Statin" -> 1 [] label = "Diabetes" -> 2 [] label = "RAS" -> 3

\* C2: build_measure_rows returns a measure exactly when one of its three
\* period values is present and not NaN; every returned measure carries its
\* three slots in period order; the measures come in the order Statin,
\* Diabetes, RAS, each at most once.
C2_Select ==
    call.fn = "build_measure_rows"
        => /\ \A m \in Prefixes :
                 (\E j \in 1..Len(ret) : ret[j][1] = m) <=> HasValue(call.arg, m)
           /\ \A j \in 1..Len(ret) :
                 /\ Len(ret[j][2]) = 3
                 /\ \A p \in 1..3 : ret[j][2][p] = Slot(call.arg, ret[j][1], p)
           /\ \A j1, j2 \in 1..Len(ret) :
                 j1 < j2 => Rank(ret[j1][1]) < Rank(ret[j2][1])

C2_Witness ==
    /\ call.fn = "build_measure_rows"
    /\ call.arg["Statin"] = <<NaN, None, NaN>>
    /\ call.arg["Diabetes"] = <<NaN, Pct(85), None>>
    /\ call.arg["RAS"] = <<Pct(55), None, None>>
    /\ ret = << <<"Diabetes", <<NaN, Pct(85), None>> >>, <<"RAS", <<Pct(55), None, None>> >> >>

\* The year m modulo 100, zero-padded to two digits.
TwoDigits(m) == <<Digit((m % 100) \div 10), Digit(m % 10)>>

YearLabelsMod100 ==
    /\ Len(ret) = 3
    /\ \A j \in 1..3 : ret[j] = TwoDigits(call.arg - 3 + j)

Supplied(values, c) == IF c + 1 <= Len(values) THEN values[c + 1] ELSE None

ShapesAt(d, x, y) == {j \in 1..Len(d.shapes) : d.shapes[j].x = x /\ d.shapes[j].y = y}

\* C8: pdc_heatmap lays out Len(measure_rows) rows of 3 cells, 40 wide and 18
\* high, row 0 at the top: cell (r, c) holds one rectangle filled with the
\* bucket of the c-th supplied value, or nothing when that bucket is blank
\* (value missing, or not supplied); values past the third draw nothing; no
\* rectangle lies outside these cells; an empty measure_rows gives an empty
\* drawing one row high.
C8_Grid ==
    call.fn = "pdc_heatmap"
        => LET mr == call.arg
               d == ret
               rows == Len(mr)
           IN /\ d.width = 120
              /\ d.height = (IF rows = 0 THEN 18 ELSE rows * 18)
              /\ \A r \in 0..(rows - 1), c \in 0..2 :
                    LET b == Bucket(Supplied(mr[r + 1][2], c))
                        at == ShapesAt(d, c * 40, d.height - (r + 1) * 18)
                    IN IF b = Blank
                       THEN at = {}
                       ELSE /\ Cardinality(at) = 1
                            /\ \A j \in at : /\ d.shapes[j].fillColor = b
                                              /\ d.shapes[j].w = 40
                                              /\ d.shapes[j].h = 18
              /\ \A j \in 1..Len(d.shapes) :
                    \E r \in 0..(rows - 1), c \in 0..2 :
                        /\ d.shapes[j].x = c * 40
                        /\ d.shapes[j].y = d.height - (r + 1) * 18

C8_Witness ==
    /\ call.fn = "pdc_heatmap"
    /\ Len(call.arg) = 2
    /\ call.arg[1][2] = <<Pct(55), Pct(65), Pct(85), None>>
    /\ call.arg[2][2] = <<Pct(85)>>
    /\ Len(ret.shapes) = 4
    /\ ret.shapes[1] = Rect(0, 18, 40, 18, RED)
    /\ ret.shapes[4] = Rect(0, 0, 40, 18, GREEN)

---------------------------------------------------------------------------
(* Claims about build_provider_pdf and the batch loop *)

\* C3: every body row of the data table carries the heatmap graphic of its own
\* record, pdc_heatmap(build_measure_rows(record)).
C3_RowHeatmap ==
    doc.called /\ doc.table_data # <<>>
        => \A k \in 1..Len(doc.group) :
              \E c \in 1..Len(doc.table_data[k + 1]) :
                  /\ doc.table_data[k + 1][c].cell = "heatmap"
                  /\ doc.table_data[k + 1][c].drawing
                         = pdc_heatmap(build_measure_rows(doc.group[k]))

\* C4: the story holds the legend row only if some record of the group has a
\* non-empty measure selection.
C4_LegendGated ==
    doc.called /\ (\E j \in 1..Len(doc.story) : doc.story[j] = "legend_table")
        => \E k \in 1..Len(doc.group) : build_measure_rows(doc.group[k]) # <<>>

\* C5: when the batch has come to rest, the build of every group was started,
\* whichever group failed.
C5_Isolation ==
    pc # "loop" => \A g \in 1..n : g \in started

\* C6: of the pages of a document, page 1 and no other has the banner drawn
\* on it, and every page the table spans opens with the table's header row.
C6_BannerOnce ==
    doc.called /\ doc.pages # <<>>
        => /\ doc.pages[1].callback = "first_page_header"
           /\ \A p \in 2..Len(doc.pages) : doc.pages[p].callback # "first_page_header"
           /\ \A p \in 1..Len(doc.pages) : doc.pages[p].has_table => doc.pages[p].header_row
           /\ \E p \in 1..Len(doc.pages) : doc.pages[p].has_table

C6_Witness ==
    /\ doc.called
    /\ doc.written
    /\ Len(doc.pages) = 3
    /\ ~doc.pages[1].has_table
    /\ doc.pages[2].header_row
    /\ doc.pages[3].header_row

RECURSIVE Sum(_)
Sum(seq) == IF seq = <<>> THEN 0 ELSE Head(seq) + Sum(Tail(seq))

\* C9: the table has one column width per column and the widths sum to the
\* usable width, 612 - 54 - 54 = 504 points.
C9_WidthsPartition ==
    doc.called /\ doc.table_data # <<>>
        => /\ Len(doc.col_widths) = Len(doc.table_data[1])
           /\ Sum(doc.col_widths) = 50400

\* C10: whatever logo_path names, first_page_header raises nothing and draws
\* the title and the subtitle where it draws them beside a readable logo.
C10_LogoNeverFails ==
    banner.called
        => /\ ~banner.raised
           /\ \A j \in 1..4 : banner.ops[j] = first_page_header("image").ops[j]

====
